---------------------------- MODULE Spec2Model ----------------------------
(***************************************************************************)
(* docx-analyzer: the read path (DocxAnalyzer, parser.py) and the write    *)
(* path (parse_review_for_comments / inject_comments_to_docx, writer.py).  *)
(*                                                                         *)
(* Representation.  A Python str is a sequence of one-character strings    *)
(* (<<"a", " ">>), so that strip(), substring tests, comparisons and the   *)
(* regular expressions are computed character by character.  An Optional   *)
(* value is a sequence of length 0 (None) or 1 (<<v>>).  An XML element is *)
(* a record [tag, text, author, date, id, kids]; w:t and w:delText carry   *)
(* their character data in text, the revision wrappers carry w:author and  *)
(* w:date, the comment range markers carry w:id.                           *)
(***************************************************************************)
EXTENDS Integers, Sequences, FiniteSets, TLC

VARIABLES
    package,     \* the opened archive: [body, comments_part]          (self._zip)
    comments,    \* Comment Directory: comment id -> [text, date]      (self.comments)
    paragraphs,  \* ParagraphAnalysis records produced so far          (analyze: paragraphs)
    walked,      \* per analysed paragraph, what _analyze_paragraph held on the way:
                 \* locals = its locals when walk(para) returns (line 223),
                 \* emitted = events in emission order, before the sort (line 227)
    pc,          \* "analyze" while the loop of analyze() runs, then "done"
    zip,         \* the archive handle self._zip: "none", "open" or "closed"
    review_text, \* the markdown review handed to the write path
    source,      \* the document the write path annotates: per paragraph its runs' text
    comments_map,\* parse_review_for_comments' result, a dict in insertion order
    output,      \* None until inject_comments_to_docx has saved; then the saved
                 \* package: the source's paragraphs and the comments added
    wpc,         \* "parse", "inject", then "saved" or "raised" along the write path
    create       \* create_commented_docx: its position, its environment (the
                 \* API key, the locator's reply), its locals and its result

readVars == <<package, comments, paragraphs, walked, pc, zip>>
writeVars == <<review_text, source, comments_map, output, wpc>>
vars == <<readVars, writeVars, create>>

-----------------------------------------------------------------------------
(* Bounds of the model *)

\* the elements below a w:p of the structural paragraph family
MaxNodes == 3
\* the revision wrappers of a paragraph of the dated family
MaxDated == 3
\* the elements below each w:p of the two-paragraph (move) family
MaxMoveNodes == 3
\* the characters before the paragraph marker of a review line
MaxPrefix == 3
\* the characters of the trailing text of a review line, after its head
MaxTrail == 4
\* the lines of a review of several lines
MaxLines == 2
\* the runs of a paragraph handed to the injector
MaxRuns == 3
\* the annotations of one paragraph in a comments_map handed to the injector
MaxItems == 2
\* the paragraphs a comments_map handed to the injector addresses
MaxEntries == 2
\* the items of a locator reply of several items
MaxReply == 2
\* the elements below a w:p of the comment-range family
MaxRangeNodes == 4

-----------------------------------------------------------------------------
(* Optional values and strings *)

None == <<>>
Some(v) == <<v>>
IsNone(o) == o = <<>>
Val(o) == o[1]

\* Python truthiness of an Optional[str]: None and "" are falsy
Truthy(o) == o # None /\ Val(o) # <<>>

\* str.isspace for one character of the model's alphabet
IsSpace(c) == c = " "

RECURSIVE LStrip(_)
LStrip(s) ==
    IF s # <<>> /\ IsSpace(Head(s)) THEN LStrip(Tail(s)) ELSE s

RECURSIVE RStrip(_)
RStrip(s) ==
    IF s # <<>> /\ IsSpace(s[Len(s)]) THEN RStrip(SubSeq(s, 1, Len(s) - 1)) ELSE s

\* str.strip()
Strip(s) == RStrip(LStrip(s))

\* "".join(parts)
RECURSIVE Join(_)
Join(parts) ==
    IF parts = <<>> THEN <<>> ELSE Head(parts) \o Join(Tail(parts))

\* code point of a character (the characters dates are made of)
Ord(c) ==
    CASE c = "1" -> 49
      [] c = "2" -> 50
      [] OTHER   -> 0

\* s < t for Python str: lexicographic by code point, a proper prefix is smaller
RECURSIVE StrLess(_, _)
StrLess(s, t) ==
    IF t = <<>> THEN FALSE
    ELSE IF s = <<>> THEN TRUE
    ELSE IF Ord(Head(s)) # Ord(Head(t)) THEN Ord(Head(s)) < Ord(Head(t))
    ELSE StrLess(Tail(s), Tail(t))

\* t occurs in s (Python: t in s)
Contains(s, t) ==
    \E i \in 0..(Len(s) - Len(t)) : SubSeq(s, i + 1, i + Len(t)) = t

-----------------------------------------------------------------------------
(* XML elements *)

Elem(tag, text, author, date, id, kids) ==
    [tag |-> tag, text |-> text, author |-> author, date |-> date,
     id |-> id, kids |-> kids]

T(s)        == Elem("t", s, None, None, None, <<>>)
DelText(s)  == Elem("delText", s, None, None, None, <<>>)
\* a run holding one w:t / one w:delText
R(s)        == Elem("r", <<>>, None, None, None, <<T(s)>>)
RD(s)       == Elem("r", <<>>, None, None, None, <<DelText(s)>>)
CStart(id)  == Elem("commentRangeStart", <<>>, None, None, id, <<>>)
CEnd(id)    == Elem("commentRangeEnd", <<>>, None, None, id, <<>>)
Wrap(tag, author, date, kids) == Elem(tag, <<>>, author, date, None, kids)
P(kids)     == Elem("p", <<>>, None, None, None, kids)

RevisionTags == {"ins", "del", "moveFrom", "moveTo"}


\* _text_in_element: the text of all w:t descendants, in document order
RECURSIVE TextInElement(_)
RECURSIVE TextInKids(_, _)
TextInKids(kids, i) ==
    IF i > Len(kids) THEN <<>>
    ELSE (IF kids[i].tag = "t" THEN kids[i].text ELSE <<>>)
         \o TextInElement(kids[i]) \o TextInKids(kids, i + 1)

TextInElement(el) == TextInKids(el.kids, 1)

-----------------------------------------------------------------------------
(* Change events *)

ChangeEvent(kind, text, author, date, comment_id, comment_text) ==
    [kind |-> kind, text |-> text, author |-> author, date |-> date,
     comment_id |-> comment_id, comment_text |-> comment_text]

\* kind of the event a revision wrapper emits
KindOf(tag) ==
    CASE tag = "ins"      -> "add"
      [] tag = "del"      -> "delete"
      [] tag = "moveFrom" -> "move_from"
      [] tag = "moveTo"   -> "move_to"

\* ChangeEvent(kind=..., text=text, author=child.get(author), date=child.get(date))
RevisionEvent(child, text) ==
    ChangeEvent(KindOf(child.tag), text, child.author, child.date, None, None)

-----------------------------------------------------------------------------
(* _analyze_paragraph: the locals current_text, events and                  *)
(* active_comment_buffers are the fields of st.  The dict of buffers is a   *)
(* sequence of [id, buf] in insertion order (the order a Python dict keeps).*)

EmptyLocals == [current_text |-> <<>>, events |-> <<>>, buffers |-> <<>>]

HasBuffer(buffers, cid) == \E i \in 1..Len(buffers) : buffers[i].id = cid

BufferOf(buffers, cid) ==
    LET i == CHOOSE j \in 1..Len(buffers) : buffers[j].id = cid IN buffers[i].buf

\* for buf in active_comment_buffers.values(): buf.append(text)
AppendToAll(buffers, text) ==
    [i \in 1..Len(buffers) |-> [buffers[i] EXCEPT !.buf = Append(@, text)]]

\* active_comment_buffers[cid] = []  (an existing key keeps its position)
OpenBuffer(buffers, cid) ==
    IF HasBuffer(buffers, cid)
    THEN [i \in 1..Len(buffers) |->
            IF buffers[i].id = cid THEN [buffers[i] EXCEPT !.buf = <<>>]
            ELSE buffers[i]]
    ELSE Append(buffers, [id |-> cid, buf |-> <<>>])

\* active_comment_buffers.pop(id_, None)
PopBuffer(buffers, cid) == SelectSeq(buffers, LAMBDA b : b.id # cid)

\* the Comment Directory is a sequence of [id, text, date] with distinct ids
InDir(dir, cid) == \E i \in 1..Len(dir) : dir[i].id = cid

\* self.comments.get(id_, {}).get(key)
DirGet(dir, cid, key) ==
    IF InDir(dir, cid)
    THEN LET i == CHOOSE j \in 1..Len(dir) : dir[j].id = cid IN dir[i][key]
    ELSE None

FlushCommentKnownOnly(dir, cid, st) ==
    IF InDir(dir, cid)
    THEN [st EXCEPT
            !.events = Append(@, ChangeEvent("comment",
                          Join(BufferOf(st.buffers, cid)), None,
                          DirGet(dir, cid, "date"), Some(cid),
                          DirGet(dir, cid, "text"))),
            !.buffers = PopBuffer(@, cid)]
    ELSE [st EXCEPT !.buffers = PopBuffer(@, cid)]

\* flush_comment(id_)
FlushComment(dir, cid, st) ==
    [st EXCEPT
        !.events = Append(@, ChangeEvent("comment",
                      IF HasBuffer(st.buffers, cid)
                      THEN Join(BufferOf(st.buffers, cid)) ELSE <<>>,
                      None,
                      DirGet(dir, cid, "date"), Some(cid),
                      DirGet(dir, cid, "text"))),
        !.buffers = PopBuffer(@, cid)]

\* walk(node, deletion): one call, all children in order
RECURSIVE Walk(_, _, _, _)
RECURSIVE WalkFrom(_, _, _, _, _)

\* if text: current_text.append(text); every open buffer gets text
Contribute(st, text, visible, buffered) ==
    IF text = <<>> THEN st
    ELSE [st EXCEPT
            !.current_text = IF visible THEN Append(@, text) ELSE @,
            !.buffers = IF buffered THEN AppendToAll(@, text) ELSE @]

\* tag == "ins"
InsBranch(dir, child, deletion, st) ==
    LET text == TextInElement(child)
        st1  == [st EXCEPT !.events = Append(@, RevisionEvent(child, text))]
        st2  == Walk(dir, child, FALSE, st1)
    IN  Contribute(st2, text, TRUE, TRUE)

\* tag == "del"
DelBranch(dir, child, deletion, st) ==
    LET text == TextInElement(child)
        st1  == [st EXCEPT !.events = Append(@, RevisionEvent(child, text))]
        st2  == Walk(dir, child, TRUE, st1)
    IN  Contribute(st2, text, FALSE, TRUE)

\* tag == "moveFrom"
MoveFromBranch(dir, child, deletion, st) ==
    LET text == TextInElement(child)
        st1  == [st EXCEPT !.events = Append(@, RevisionEvent(child, text))]
    IN  Walk(dir, child, TRUE, st1)

\* tag == "moveTo"
MoveToBranch(dir, child, deletion, st) ==
    LET text == TextInElement(child)
        st1  == [st EXCEPT !.events = Append(@, RevisionEvent(child, text))]
        st2  == Walk(dir, child, FALSE, st1)
    IN  Contribute(st2, text, TRUE, TRUE)

\* tag == "commentRangeStart"
CommentStartBranch(dir, child, deletion, st) ==
    IF child.id # None
    THEN [st EXCEPT !.buffers = OpenBuffer(@, Val(child.id))]
    ELSE st

\* tag == "commentRangeEnd"
CommentEndBranch(dir, child, deletion, st) ==
    IF child.id # None /\ HasBuffer(st.buffers, Val(child.id))
    THEN FlushComment(dir, Val(child.id), st)
    ELSE st

\* tag in {"r", "hyperlink"}
RunBranch(dir, child, deletion, st) ==
    LET text == TextInElement(child)
        st1  == Contribute(st, text, ~deletion, TRUE)
    IN  Walk(dir, child, deletion, st1)

\* any other tag
OtherBranch(dir, child, deletion, st) == Walk(dir, child, deletion, st)

WalkChild(dir, child, deletion, st) ==
    CASE child.tag = "ins"               -> InsBranch(dir, child, deletion, st)
      [] child.tag = "del"               -> DelBranch(dir, child, deletion, st)
      [] child.tag = "moveFrom"          -> MoveFromBranch(dir, child, deletion, st)
      [] child.tag = "moveTo"            -> MoveToBranch(dir, child, deletion, st)
      [] child.tag = "commentRangeStart" -> CommentStartBranch(dir, child, deletion, st)
      [] child.tag = "commentRangeEnd"   -> CommentEndBranch(dir, child, deletion, st)
      [] child.tag \in {"r", "hyperlink"} -> RunBranch(dir, child, deletion, st)
      [] OTHER                           -> OtherBranch(dir, child, deletion, st)

WalkFrom(dir, kids, i, deletion, st) ==
    IF i > Len(kids) THEN st
    ELSE WalkFrom(dir, kids, i + 1, deletion, WalkChild(dir, kids[i], deletion, st))

Walk(dir, node, deletion, st) == WalkFrom(dir, node.kids, 1, deletion, st)

\* for cid in list(active_comment_buffers.keys()): flush_comment(cid)
RECURSIVE FlushUnclosed(_, _)
FlushUnclosedNone(dir, st) == [st EXCEPT !.buffers = <<>>]

FlushUnclosed(dir, st) ==
    IF st.buffers = <<>> THEN st
    ELSE FlushUnclosed(dir, FlushComment(dir, st.buffers[1].id, st))

\* the sort key: x.date or ""
DateKey(ev) == IF Truthy(ev.date) THEN Val(ev.date) ELSE <<>>

\* list.sort(key=...) is stable and ascending: each event goes behind every
\* event whose key is not greater
RECURSIVE InsertSorted(_, _)
InsertSorted(sorted, ev) ==
    IF sorted = <<>> THEN <<ev>>
    ELSE IF StrLess(DateKey(ev), DateKey(sorted[Len(sorted)]))
         THEN Append(InsertSorted(SubSeq(sorted, 1, Len(sorted) - 1), ev),
                     sorted[Len(sorted)])
         ELSE Append(sorted, ev)

RECURSIVE SortFrom(_, _, _)
SortFrom(evs, i, acc) ==
    IF i > Len(evs) THEN acc ELSE SortFrom(evs, i + 1, InsertSorted(acc, evs[i]))

RECURSIVE InsertUnstable(_, _)
InsertUnstable(sorted, ev) ==
    IF sorted = <<>> THEN <<ev>>
    ELSE IF ~StrLess(DateKey(sorted[Len(sorted)]), DateKey(ev))
         THEN Append(InsertUnstable(SubSeq(sorted, 1, Len(sorted) - 1), ev),
                     sorted[Len(sorted)])
         ELSE Append(sorted, ev)

RECURSIVE SortFromUnstable(_, _, _)
SortFromUnstable(evs, i, acc) ==
    IF i > Len(evs) THEN acc
    ELSE SortFromUnstable(evs, i + 1, InsertUnstable(acc, evs[i]))

SortEventsUnstable(evs) == SortFromUnstable(evs, 1, <<>>)

\* events.sort(key=lambda x: x.date or "")
SortEvents(evs) == SortFrom(evs, 1, <<>>)

\* the locals when walk(para) has returned (line 223)
WalkParagraph(dir, para) == Walk(dir, para, FALSE, EmptyLocals)

\* _analyze_paragraph(idx, para)
AnalyzeParagraph(dir, idx, para) ==
    LET st == FlushUnclosed(dir, WalkParagraph(dir, para))
    IN  [index  |-> idx,
         text   |-> Strip(Join(st.current_text)),
         events |-> SortEvents(st.events)]

-----------------------------------------------------------------------------
(* _load_comments *)

\* a w:comment element of word/comments.xml, its body one paragraph of one run
CommentElem(cid, body, date) ==
    Elem("comment", <<>>, None, date, cid, <<P(<<R(body)>>)>>)

\* comments[cid] = {...}: a new key goes last, an existing key keeps its place
DirPut(dir, entry) ==
    IF InDir(dir, entry.id)
    THEN [i \in 1..Len(dir) |-> IF dir[i].id = entry.id THEN entry ELSE dir[i]]
    ELSE Append(dir, entry)

RECURSIVE LoadFrom(_, _, _)
LoadFrom(list, i, dir) ==
    IF i > Len(list) THEN dir
    ELSE LoadFrom(list, i + 1,
            DirPut(dir, [id   |-> list[i].id,
                         text |-> Some(TextInElement(list[i])),
                         date |-> list[i].date]))

\* _load_comments: word/comments.xml missing (KeyError) -> {}
LoadComments(part) ==
    IF part = None THEN <<>> ELSE LoadFrom(Val(part), 1, <<>>)

-----------------------------------------------------------------------------
(* The documents the model reads *)

\* kid sequences of exactly n elements (a run and its w:t count as one),
\* built from the leaves `atoms` and the childless wrappers `shells`
RECURSIVE ForestExact(_, _, _)
TreeExact(atoms, shells, k) ==
    IF k = 1 THEN atoms \cup shells
    ELSE LET sub == ForestExact(atoms, shells, k - 1)
         IN  {[w EXCEPT !.kids = f] : w \in shells, f \in sub}

ForestExact(atoms, shells, n) ==
    IF n = 0 THEN {<<>>}
    ELSE UNION {LET ts == TreeExact(atoms, shells, k)
                    fs == ForestExact(atoms, shells, n - k)
                IN  {<<t>> \o f : t \in ts, f \in fs} : k \in 1..n}

Forests(atoms, shells, n) == UNION {ForestExact(atoms, shells, m) : m \in 0..n}

Ins      == Wrap("ins", Some("A"), Some(<<"2">>), <<>>)
Del      == Wrap("del", Some("B"), Some(<<"1">>), <<>>)
MoveFrom == Wrap("moveFrom", Some("A"), Some(<<"1", "2">>), <<>>)
MoveTo   == Wrap("moveTo", None, None, <<>>)

\* revision family: the four revision wrappers, nested, around live and deleted runs
RevisionAtoms  == {R(<<"a">>), R(<<"b">>), RD(<<"a">>)}
RevisionShells == {Ins, Del, MoveFrom, MoveTo}

\* comment family: comment ranges around runs (one of them blank) and revisions
CommentAtoms  == {R(<<"a">>), R(<<" ">>), CStart(Some("0")), CEnd(Some("0"))}
CommentShells == {Ins, Del}

\* link family: runs below w:hyperlink and below an element walk() has no case for
LinkAtoms  == {R(<<"a">>)}
LinkShells == {Wrap("hyperlink", None, None, <<>>),
               Wrap("smartTag", None, None, <<>>), Ins, Del}

\* dated family: flat revisions whose w:date varies
DateSet == {None, Some(<<>>), Some(<<"1">>), Some(<<"2">>), Some(<<"1", "2">>)}

DatedItems ==
    {Wrap(tag, Some("A"), d, <<R(<<"a">>)>>) : tag \in {"ins", "del"}, d \in DateSet}

RECURSIVE SeqsUpTo(_, _)
SeqsUpTo(S, n) ==
    IF n = 0 THEN {<<>>}
    ELSE LET shorter == SeqsUpTo(S, n - 1)
         IN  shorter \cup {Append(q, x) : q \in {r \in shorter : Len(r) = n - 1}, x \in S}

\* word/comments.xml: absent, or present with one comment
CommentParts ==
    {None,
     Some(<<CommentElem("0", <<"c">>, Some(<<"1">>))>>),
     Some(<<CommentElem("1", <<"c">>, None)>>)}

Package(body, part) == [body |-> body, comments_part |-> part]

\* one-paragraph documents of each family
RevisionDocs(n) ==
    {Package(<<P(f)>>, None) : f \in Forests(RevisionAtoms, RevisionShells, n)}

CommentDocs(n) ==
    {Package(<<P(f)>>, c) : f \in Forests(CommentAtoms, CommentShells, n),
                            c \in CommentParts}

LinkDocs(n) ==
    {Package(<<P(f)>>, None) : f \in Forests(LinkAtoms, LinkShells, n)}

DatedDocs(d) ==
    {Package(<<P(f)>>, None) : f \in SeqsUpTo(DatedItems, d)}

\* move family: a source and a destination paragraph
MoveAtoms == {R(<<"a">>)}
MoveStamp(tag) == Wrap(tag, Some("A"), Some(<<"1">>), <<>>)

MoveDocSet(n) ==
    {Package(<<P(f), P(g)>>, None) :
        f \in Forests(MoveAtoms, {MoveStamp("moveFrom"), Ins}, n),
        g \in Forests(MoveAtoms, {MoveStamp("moveTo"), Ins}, n)}

-----------------------------------------------------------------------------
(* DocxAnalyzer *)

\* the write path is not running
WriteIdle ==
    /\ review_text = <<>>
    /\ source = <<>>
    /\ comments_map = <<>>
    /\ output = None
    /\ wpc = "idle"
    /\ create = [pc |-> "idle"]

\* __init__: open the archive (zipfile.ZipFile(self.path)), load the Comment
\* Directory
Construct(doc) ==
    /\ WriteIdle
    /\ package = doc
    /\ comments = LoadComments(doc.comments_part)
    /\ paragraphs = <<>>
    /\ walked = <<>>
    /\ pc = "analyze"
    /\ zip = "open"

Init ==
    \/ \E doc \in RevisionDocs(MaxNodes) : Construct(doc)
    \/ \E doc \in CommentDocs(MaxNodes) : Construct(doc)
    \/ \E doc \in LinkDocs(MaxNodes) : Construct(doc)
    \/ \E doc \in DatedDocs(MaxDated) : Construct(doc)

InitMove == \E doc \in MoveDocSet(MaxMoveNodes) : Construct(doc)

\* analyze(): one iteration of the loop over w:body/w:p
AnalyzeStep ==
    /\ pc = "analyze"
    /\ Len(paragraphs) < Len(package.body)
    /\ LET idx  == Len(paragraphs)
           para == package.body[idx + 1]
       IN  /\ paragraphs' = Append(paragraphs, AnalyzeParagraph(comments, idx, para))
           /\ walked' = Append(walked,
                  [locals  |-> WalkParagraph(comments, para),
                   emitted |-> FlushUnclosed(comments,
                                  WalkParagraph(comments, para)).events])
    /\ UNCHANGED <<package, comments, pc, zip, writeVars, create>>

\* analyze(): return DocumentAnalysis(path, paragraphs)
AnalyzeReturn ==
    /\ pc = "analyze"
    /\ Len(paragraphs) = Len(package.body)
    /\ pc' = "done"
    /\ UNCHANGED <<package, comments, paragraphs, walked, zip, writeVars, create>>

Next == AnalyzeStep \/ AnalyzeReturn

Spec == Init /\ [][Next]_vars

SpecMove == InitMove /\ [][Next]_vars

\* range family: the markers of one comment range among runs and insertion
\* and deletion wrappers, at any depth
RangeDocs(n) ==
    {Package(<<P(f)>>, None) :
        f \in Forests({R(<<"a">>), R(<<"b">>), CStart(Some("0")), CEnd(Some("0"))},
                      {Ins, Del}, n)}

\* the markers of two comment ranges among runs, all children of the paragraph
FlatRangeDocs(n) ==
    {Package(<<P(f)>>, None) :
        f \in SeqsUpTo({R(<<"a">>), CStart(Some("0")), CEnd(Some("0")),
                        CStart(Some("1")), CEnd(Some("1"))}, n)}

InitRange ==
    \/ \E doc \in RangeDocs(MaxRangeNodes) : Construct(doc)
    \/ \E doc \in FlatRangeDocs(MaxRangeNodes) : Construct(doc)

SpecRange == InitRange /\ [][Next]_vars


-----------------------------------------------------------------------------
(* Vocabulary of the properties: what a paragraph's markup contains,        *)
(* read off the tree and not off the walk                                    *)

Analysed == 1..Len(paragraphs)
Para(i) == package.body[i]

Chars(s) == {s[k] : k \in 1..Len(s)}
IsLeaf(el) == el.tag \in {"t", "delText"}

\* the elements below node, in document order (pre-order)
RECURSIVE Descendants(_)
RECURSIVE DescendantsFrom(_, _)
DescendantsFrom(kids, i) ==
    IF i > Len(kids) THEN <<>>
    ELSE <<kids[i]>> \o Descendants(kids[i]) \o DescendantsFrom(kids, i + 1)

Descendants(node) == DescendantsFrom(node.kids, 1)

\* the literal text below node: w:t and w:delText alike, in document order
FullText(node) ==
    LET d == Descendants(node)
    IN  Join([k \in 1..Len(d) |-> IF IsLeaf(d[k]) THEN d[k].text ELSE <<>>])

\* the text of the w:t nodes below node, in document order
LiveText(node) ==
    LET d == Descendants(node)
    IN  Join([k \in 1..Len(d) |-> IF d[k].tag = "t" THEN d[k].text ELSE <<>>])

\* the characters of the text nodes below node that have (under = TRUE) or
\* do not have (under = FALSE) an ancestor with a tag in `tags` below node
RECURSIVE LeafChars(_, _, _, _)
LeafChars(node, tags, inside, under) ==
    UNION {IF IsLeaf(node.kids[k])
           THEN (IF inside = under THEN Chars(node.kids[k].text) ELSE {})
           ELSE LeafChars(node.kids[k], tags,
                          inside \/ node.kids[k].tag \in tags, under)
           : k \in 1..Len(node.kids)}

IsPlainRun(el) ==
    el.tag = "r" /\ \A k \in 1..Len(el.kids) : el.kids[k].tag = "t"

\* only plain runs and insertion wrappers around plain runs
OnlyRunsAndInsertions(para) ==
    \A k \in 1..Len(para.kids) :
        \/ IsPlainRun(para.kids[k])
        \/ /\ para.kids[k].tag = "ins"
           /\ \A m \in 1..Len(para.kids[k].kids) : IsPlainRun(para.kids[k].kids[m])

WrappersOf(node, tag) ==
    SelectSeq(Descendants(node), LAMBDA el : el.tag = tag)

EventsOfKind(evs, kind) == SelectSeq(evs, LAMBDA ev : ev.kind = kind)

CommentEventsFor(evs, cid) ==
    SelectSeq(evs, LAMBDA ev : ev.kind = "comment" /\ ev.comment_id = Some(cid))

HasMarker(para, tag, cid) ==
    \E k \in 1..Len(Descendants(para)) :
        Descendants(para)[k].tag = tag /\ Descendants(para)[k].id = Some(cid)

CommentIds == {"0", "1"}

-----------------------------------------------------------------------------
(* Properties of the read path *)

\* C1: a paragraph of only plain runs and insertions of runs reconstructs to
\* the concatenation of all run text in document order, trimmed
C1_InsertionsReconstruct ==
    \A i \in Analysed :
        OnlyRunsAndInsertions(Para(i))
            => paragraphs[i].text = Strip(LiveText(Para(i)))

\* C2: a character that occurs in the paragraph only below a deletion wrapper,
\* at whatever depth, does not occur in the reconstructed text
C2_DeletedTextExcluded ==
    \A i \in Analysed :
        \A c \in LeafChars(Para(i), {"del"}, FALSE, TRUE)
                 \ LeafChars(Para(i), {"del"}, FALSE, FALSE) :
            c \notin Chars(paragraphs[i].text)

\* C3: the text of a MoveFrom wrapper of one paragraph that is the text of a
\* MoveTo wrapper of another is in the destination's text and, when the source
\* holds text only below MoveFrom wrappers, not in the source's text; each
\* paragraph records one event per move wrapper, of the matching kind
C3_MoveRelocatesText ==
    \A i \in Analysed, j \in Analysed :
        \A f \in 1..Len(WrappersOf(Para(i), "moveFrom")),
           t \in 1..Len(WrappersOf(Para(j), "moveTo")) :
            LET x == FullText(WrappersOf(Para(i), "moveFrom")[f])
            IN  ( /\ i # j
                  /\ x # <<>>
                  /\ x = FullText(WrappersOf(Para(j), "moveTo")[t])
                  /\ LeafChars(Para(i), {"moveFrom"}, FALSE, FALSE) = {} )
                => /\ Contains(paragraphs[j].text, x)
                   /\ ~Contains(paragraphs[i].text, x)
                   /\ Len(EventsOfKind(paragraphs[i].events, "move_from"))
                        = Len(WrappersOf(Para(i), "moveFrom"))
                   /\ Len(EventsOfKind(paragraphs[j].events, "move_to"))
                        = Len(WrappersOf(Para(j), "moveTo"))


Dated(ev) == Truthy(ev.date)

WithKey(evs, key) == SelectSeq(evs, LAMBDA ev : DateKey(ev) = key)

\* C4: the events of an analysed paragraph are in ascending date order, the
\* undated ones first; events of one date, and the undated events, are in the
\* order they were emitted in
C4_EventsSortedStable ==
    \A i \in Analysed :
        LET evs == paragraphs[i].events
            em  == walked[i].emitted
        IN  /\ Len(evs) = Len(em)
            /\ \A p \in 1..Len(evs), q \in 1..Len(evs) :
                /\ (Dated(evs[p]) /\ Dated(evs[q])
                    /\ StrLess(Val(evs[p].date), Val(evs[q].date))) => p < q
                /\ (~Dated(evs[p]) /\ Dated(evs[q])) => p < q
            /\ \A k \in 1..Len(em) :
                WithKey(evs, DateKey(em[k])) = WithKey(em, DateKey(em[k]))

\* a paragraph whose events were emitted out of date order: two dates, an
\* undated event, two distinct events of one date, and the sort moved something
C4_Witness ==
    \E i \in Analysed :
        LET evs == paragraphs[i].events
            em  == walked[i].emitted
        IN  /\ evs # em
            /\ \E p \in 1..Len(evs), q \in 1..Len(evs) :
                 Dated(evs[p]) /\ Dated(evs[q])
                 /\ StrLess(Val(evs[p].date), Val(evs[q].date))
            /\ \E p \in 1..Len(evs) : ~Dated(evs[p])

\* two distinct events of one date keep their emission order
C4_WitnessEqualDates ==
    \E i \in Analysed :
        \E p \in 1..Len(paragraphs[i].events), q \in 1..Len(paragraphs[i].events) :
            /\ p < q
            /\ paragraphs[i].events[p] # paragraphs[i].events[q]
            /\ DateKey(paragraphs[i].events[p]) = DateKey(paragraphs[i].events[q])

\* comment ids whose range starts in para and has no end marker in para
Unterminated(para) ==
    {cid \in CommentIds :
        HasMarker(para, "commentRangeStart", cid)
        /\ ~HasMarker(para, "commentRangeEnd", cid)}

\* C5: a comment range started in the paragraph and never ended in it yields
\* exactly one Comment event with its id, whose text is what the range had
\* accumulated when the walk reached the paragraph's end
C5_UnterminatedRangeFlushed ==
    \A i \in Analysed :
        \A cid \in Unterminated(Para(i)) :
            /\ Len(CommentEventsFor(paragraphs[i].events, cid)) = 1
            /\ HasBuffer(walked[i].locals.buffers, cid)
            /\ CommentEventsFor(paragraphs[i].events, cid)[1].text
                 = Join(BufferOf(walked[i].locals.buffers, cid))

\* an unterminated range that had accumulated text is flushed with it
C5_Witness ==
    \E i \in Analysed :
        \E cid \in Unterminated(Para(i)) :
            /\ Len(CommentEventsFor(paragraphs[i].events, cid)) = 1
            /\ CommentEventsFor(paragraphs[i].events, cid)[1].text # <<>>

\* C6: without a comments part the Comment Directory is empty; a comment range
\* whose id the Directory lacks still yields a Comment event carrying that id,
\* with no body (comment_text) and no date
C6_UnknownCommentStillRecorded ==
    /\ package.comments_part = None => comments = <<>>
    /\ \A i \in Analysed :
        \A cid \in CommentIds :
            (HasMarker(Para(i), "commentRangeStart", cid) /\ ~InDir(comments, cid))
            => /\ Len(CommentEventsFor(paragraphs[i].events, cid)) >= 1
               /\ \A k \in 1..Len(CommentEventsFor(paragraphs[i].events, cid)) :
                    LET ev == CommentEventsFor(paragraphs[i].events, cid)[k]
                    IN  ev.comment_text = None /\ ev.date = None
               /\ \A k \in 1..Len(CommentEventsFor(walked[i].emitted, cid)) :
                    k = Len(CommentEventsFor(walked[i].emitted, cid))
                    /\ HasBuffer(walked[i].locals.buffers, cid)
                    => CommentEventsFor(walked[i].emitted, cid)[k].text
                         = Join(BufferOf(walked[i].locals.buffers, cid))

\* a range with accumulated text, analysed without a comments part
C6_Witness ==
    \E i \in Analysed :
        /\ package.comments_part = None
        /\ \E k \in 1..Len(paragraphs[i].events) :
            /\ paragraphs[i].events[k].kind = "comment"
            /\ paragraphs[i].events[k].text # <<>>
            /\ paragraphs[i].events[k].comment_text = None

\* a range whose id a present comments part does not list
C6_WitnessOtherId ==
    \E i \in Analysed :
        /\ package.comments_part # None
        /\ \E k \in 1..Len(paragraphs[i].events) :
            /\ paragraphs[i].events[k].kind = "comment"
            /\ paragraphs[i].events[k].comment_text = None

\* the event a revision wrapper is to emit: its kind, the literal text of its
\* subtree (for del and moveFrom the deleted-text nodes count), its own author
\* and date
ExpectedEvent(w) ==
    ChangeEvent(KindOf(w.tag),
                IF w.tag \in {"del", "moveFrom"} THEN FullText(w) ELSE LiveText(w),
                w.author, w.date, None, None)

RevisionWrappers(node) ==
    SelectSeq(Descendants(node), LAMBDA el : el.tag \in RevisionTags)

RevisionEvents(evs) == SelectSeq(evs, LAMBDA ev : ev.kind # "comment")

Count(seq, x) == Cardinality({k \in 1..Len(seq) : seq[k] = x})

\* C7: every revision wrapper emits exactly one event of its kind, carrying the
\* full literal text of its subtree (deleted-text nodes included) and its own
\* author and date
C7_OneEventPerWrapper ==
    \A i \in Analysed :
        LET ws  == RevisionWrappers(Para(i))
            exp == [k \in 1..Len(ws) |-> ExpectedEvent(ws[k])]
            evs == RevisionEvents(paragraphs[i].events)
        IN  /\ Len(evs) = Len(ws)
            /\ \A k \in 1..Len(exp) : Count(evs, exp[k]) = Count(exp, exp[k])


IsRunOf(el, leaf) ==
    el.tag = "r" /\ \A k \in 1..Len(el.kids) : el.kids[k].tag \in leaf

\* an insertion wrapper around runs and deletion wrappers of runs, at least
\* one deletion among them
InsertionAroundDeletion(el) ==
    /\ el.tag = "ins"
    /\ \A k \in 1..Len(el.kids) :
        \/ IsPlainRun(el.kids[k])
        \/ /\ el.kids[k].tag = "del"
           /\ \A m \in 1..Len(el.kids[k].kids) :
                IsRunOf(el.kids[k].kids[m], {"t", "delText"})
    /\ \E k \in 1..Len(el.kids) : el.kids[k].tag = "del"

\* the text of the w:t nodes below node that no deletion wrapper encloses,
\* each once, in document order
RECURSIVE UndeletedText(_)
UndeletedText(node) ==
    Join([k \in 1..Len(node.kids) |->
            IF node.kids[k].tag = "del" THEN <<>>
            ELSE IF node.kids[k].tag = "t" THEN node.kids[k].text
            ELSE UndeletedText(node.kids[k])])

\* C20: in a paragraph of plain runs and of insertions that enclose deletions,
\* the deleted text is not in the reconstructed text and the insertions'
\* other text is in it exactly once
C20_InsertionAroundDeletion ==
    \A i \in Analysed :
        ( /\ \A k \in 1..Len(Para(i).kids) :
                IsPlainRun(Para(i).kids[k]) \/ InsertionAroundDeletion(Para(i).kids[k])
          /\ \E k \in 1..Len(Para(i).kids) : InsertionAroundDeletion(Para(i).kids[k]) )
        => paragraphs[i].text = Strip(UndeletedText(Para(i)))

\* the places of the markers of range cid among the elements below para
MarkerPlaces(para, tag, cid) ==
    {k \in 1..Len(Descendants(para)) :
        Descendants(para)[k].tag = tag /\ Descendants(para)[k].id = Some(cid)}

\* range cid has one start marker and, after it, one end marker
ClosedRange(para, cid) ==
    /\ Cardinality(MarkerPlaces(para, "commentRangeStart", cid)) = 1
    /\ Cardinality(MarkerPlaces(para, "commentRangeEnd", cid)) = 1
    /\ \A s \in MarkerPlaces(para, "commentRangeStart", cid),
          e \in MarkerPlaces(para, "commentRangeEnd", cid) : s < e

\* the text of the w:t nodes between the markers of range cid, each once,
\* in document order
TextBetween(para, cid) ==
    LET d == Descendants(para)
        s == CHOOSE k \in MarkerPlaces(para, "commentRangeStart", cid) : TRUE
        e == CHOOSE k \in MarkerPlaces(para, "commentRangeEnd", cid) : TRUE
    IN  Join([k \in 1..Len(d) |->
                IF s < k /\ k < e /\ d[k].tag = "t" THEN d[k].text ELSE <<>>])

\* C21: for a comment range with both markers in the paragraph, the Comment
\* event's text is the text of the text nodes between its start and its end
\* marker, in document order and each once, and no text before the start or
\* after the end, also with a marker inside a wrapper and with another range
\* open
C21_BufferHoldsRangeText ==
    \A i \in Analysed : \A cid \in CommentIds :
        ClosedRange(Para(i), cid) =>
            LET evs == CommentEventsFor(paragraphs[i].events, cid)
            IN  /\ Len(evs) = 1
                /\ evs[1].text = TextBetween(Para(i), cid)

IsLinkOfRuns(el) ==
    el.tag = "hyperlink" /\ \A k \in 1..Len(el.kids) : IsPlainRun(el.kids[k])

IsRunOrLink(el) == IsPlainRun(el) \/ IsLinkOfRuns(el)

\* only plain runs and links around plain runs, in visible mode (children of
\* the paragraph) or in deleted mode (children of a deletion wrapper)
OnlyRunsAndLinks(para) ==
    \A k \in 1..Len(para.kids) :
        \/ IsRunOrLink(para.kids[k])
        \/ /\ para.kids[k].tag = "del"
           /\ \A m \in 1..Len(para.kids[k].kids) : IsRunOrLink(para.kids[k].kids[m])

\* the text of the runs in visible mode, each once, in document order
VisibleRunText(para) ==
    Join([k \in 1..Len(para.kids) |->
            IF para.kids[k].tag = "del" THEN <<>> ELSE LiveText(para.kids[k])])

\* C22: a run that is a child of the paragraph or of a link contributes its
\* text exactly once to the reconstructed text in visible mode, and nothing
\* in deleted mode
C22_RunsAndLinksContributeOnce ==
    \A i \in Analysed :
        OnlyRunsAndLinks(Para(i))
            => paragraphs[i].text = Strip(VisibleRunText(Para(i)))

-----------------------------------------------------------------------------
(* writer.py: parse_review_for_comments.  The two patterns are matched the  *)
(* way re.match matches them; "D", "L" are the two characters of the        *)
(* paragraph label that follows "[" in the pattern.                         *)

Digits == {"0", "1", "2", "3", "4", "5", "6", "7", "8", "9"}
IsDigit(c) == c \in Digits

DigitVal(c) ==
    CASE c = "0" -> 0 [] c = "1" -> 1 [] c = "2" -> 2 [] c = "3" -> 3
      [] c = "4" -> 4 [] c = "5" -> 5 [] c = "6" -> 6 [] c = "7" -> 7
      [] c = "8" -> 8 [] c = "9" -> 9

\* int(match.group(1))
RECURSIVE ParseInt(_)
ParseInt(ds) ==
    IF ds = <<>> THEN 0
    ELSE 10 * ParseInt(SubSeq(ds, 1, Len(ds) - 1)) + DigitVal(ds[Len(ds)])

\* [-*\d.]
IsDeco(c) == c \in {"-", "*", "."} \/ IsDigit(c)
\* [*_]
IsEmph(c) == c \in {"*", "_"}
\* [^"]
IsNotQuote(c) == c # "\""

\* membership of a character in one of the patterns' character classes
InClass(class, c) ==
    CASE class = "space"    -> IsSpace(c)
      [] class = "digit"    -> IsDigit(c)
      [] class = "deco"     -> IsDeco(c)
      [] class = "emph"     -> IsEmph(c)
      [] class = "notquote" -> IsNotQuote(c)

AllOf(s, class) == \A k \in 1..Len(s) : InClass(class, s[k])

\* how many characters from position i on pass Test: a greedy X*
SpanLen(s, i, class) ==
    IF i > Len(s) THEN 0
    ELSE LET stops == {k \in i..Len(s) : ~InClass(class, s[k])}
         IN  IF stops = {} THEN Len(s) - i + 1
             ELSE (CHOOSE k \in stops : \A m \in stops : k <= m) - i

\* re.match(r'^\s*[-*\d.]*\s*(?:[*_]{2})?\s*$', s): some way to cut s matches
PrefixMatchesNoEmphasis(s) ==
    \E a \in 0..Len(s) : \E b \in a..Len(s) :
        /\ AllOf(SubSeq(s, 1, a), "space")
        /\ AllOf(SubSeq(s, a + 1, b), "deco")
        /\ AllOf(SubSeq(s, b + 1, Len(s)), "space")

PrefixMatches(s) ==
    \E a \in 0..Len(s) : \E b \in a..Len(s) : \E c \in b..Len(s) :
        \E d \in {c, c + 2} :
            /\ d <= Len(s)
            /\ AllOf(SubSeq(s, 1, a), "space")
            /\ AllOf(SubSeq(s, a + 1, b), "deco")
            /\ AllOf(SubSeq(s, b + 1, c), "space")
            /\ AllOf(SubSeq(s, c + 1, d), "emph")
            /\ AllOf(SubSeq(s, d + 1, Len(s)), "space")

\* re.match(pattern, line): None, or the groups (digits, trailing text).
\* No part of the prefix matches "[", so the marker is at the first "[";
\* \s*(.+)$ gives (.+) all that follows the blanks, and the last blank when
\* nothing follows them
MatchLine(line) ==
    LET opens == {k \in 1..Len(line) : line[k] = "["}
    IN  IF opens = {} THEN None
        ELSE
        LET p == CHOOSE k \in opens : \A m \in opens : k <= m
            w == SpanLen(line, p + 3, "space")
            d == SpanLen(line, p + 3 + w, "digit")
            q == p + 3 + w + d
            rest == SubSeq(line, q + 1, Len(line))
            k == SpanLen(rest, 1, "space")
        IN  IF /\ PrefixMatches(SubSeq(line, 1, p - 1))
               /\ Len(line) >= p + 2
               /\ line[p + 1] = "D"
               /\ line[p + 2] = "L"
               /\ w >= 1
               /\ d >= 1
               /\ q <= Len(line)
               /\ line[q] = "]"
               /\ rest # <<>>
            THEN Some([digits |-> SubSeq(line, p + 3 + w, q - 1),
                       trailing |-> IF k < Len(rest)
                                    THEN SubSeq(rest, k + 1, Len(rest))
                                    ELSE SubSeq(rest, Len(rest), Len(rest))])
            ELSE None

\* comment targets: None, a quoted text, a (start_text, end_text) pair
WholeTarget == [kind |-> "whole", text |-> <<>>, start |-> <<>>, end |-> <<>>]
QuotedTarget(q) == [kind |-> "quoted", text |-> q, start |-> <<>>, end |-> <<>>]
RangeTarget(a, b) == [kind |-> "range", text |-> <<>>, start |-> a, end |-> b]

\* a value decoded from JSON: a str (its characters in s), an int (n), null.
\* Absent keys of a dict are JMissing.
JStr(chars) == [t |-> "str", s |-> chars, n |-> 0]
JInt(k) == [t |-> "int", s |-> <<>>, n |-> k]
JNull == [t |-> "null", s |-> <<>>, n |-> 0]
JMissing == [t |-> "missing", s |-> <<>>, n |-> 0]
IsStr(v) == v.t = "str"
\* Python truthiness: "" , 0 and None are falsy
JTruthy(v) ==
    CASE v.t = "str" -> v.s # <<>>
      [] v.t = "int" -> v.n # 0
      [] OTHER       -> FALSE

\* a (start, end) tuple whose members are not both str
RawRangeTarget(sv, ev) ==
    [kind |-> "rawrange", text |-> <<>>, start |-> sv, end |-> ev]

QuoteMatchNoEmphasis(full_text) ==
    LET i == 1 + SpanLen(full_text, 1, "space")
        n == SpanLen(full_text, i + 1, "notquote")
    IN  IF /\ i <= Len(full_text)
           /\ full_text[i] = "\""
           /\ n >= 1
           /\ i + 1 + n <= Len(full_text)
        THEN Some(SubSeq(full_text, i + 1, i + n))
        ELSE None

\* re.match(r'^\s*(?:[*_]{2})?\s*"([^"]+)"', full_text): None or group(1)
QuoteMatch(full_text) ==
    LET i0 == 1 + SpanLen(full_text, 1, "space")
        i1 == IF /\ i0 + 1 <= Len(full_text)
                 /\ IsEmph(full_text[i0])
                 /\ IsEmph(full_text[i0 + 1])
              THEN i0 + 2 ELSE i0
        i  == i1 + SpanLen(full_text, i1, "space")
        n  == SpanLen(full_text, i + 1, "notquote")
    IN  IF /\ i <= Len(full_text)
           /\ full_text[i] = "\""
           /\ n >= 1
           /\ i + 1 + n <= Len(full_text)
        THEN Some(SubSeq(full_text, i + 1, i + n))
        ELSE None

\* review_text.split('\n')
RECURSIVE SplitLines(_)
SplitLines(text) ==
    LET breaks == {k \in 1..Len(text) : text[k] = "\n"}
    IN  IF breaks = {} THEN <<text>>
        ELSE LET b == CHOOSE k \in breaks : \A m \in breaks : k <= m
             IN  <<SubSeq(text, 1, b - 1)>> \o SplitLines(SubSeq(text, b + 1, Len(text)))

\* comments_map[para_index].append((target, comment_text)), the key created
\* on first use
MapAppend(map, para_index, item) ==
    IF \E k \in 1..Len(map) : map[k].para_index = para_index
    THEN [k \in 1..Len(map) |->
            IF map[k].para_index = para_index
            THEN [map[k] EXCEPT !.comments = Append(@, item)]
            ELSE map[k]]
    ELSE Append(map, [para_index |-> para_index, comments |-> <<item>>])

\* the body of the loop over the lines
ParseLine(map, line) ==
    LET match == MatchLine(Strip(line))
    IN  IF match = None THEN map
        ELSE LET full_text == Strip(Val(match).trailing)
                 quote == QuoteMatch(full_text)
                 target == IF quote # None THEN QuotedTarget(Val(quote))
                           ELSE WholeTarget
             IN  MapAppend(map, ParseInt(Val(match).digits),
                           [target |-> target, text |-> full_text])

RECURSIVE ParseLines(_, _, _)
ParseLines(lines, i, map) ==
    IF i > Len(lines) THEN map
    ELSE ParseLines(lines, i + 1, ParseLine(map, lines[i]))

\* parse_review_for_comments(review_text)
ParseReviewForComments(text) == ParseLines(SplitLines(text), 1, <<>>)


-----------------------------------------------------------------------------
(* writer.py: inject_comments_to_docx.  A paragraph is the sequence of its  *)
(* runs' text; a run is named by its position in the paragraph.             *)

\* str.find: the first 0-based offset of t in s, -1 when there is none
Find(s, t) ==
    LET hits == {i \in 0..(Len(s) - Len(t)) : SubSeq(s, i + 1, i + Len(t)) = t}
    IN  IF hits = {} THEN -1 ELSE CHOOSE i \in hits : \A j \in hits : i <= j

AllRuns(runs) == [k \in 1..Len(runs) |-> k]

\* paragraph.text
ParagraphText(runs) == Join(runs)

\* offset of run k in the paragraph text (current_idx when the loop reaches it)
RunStart(runs, k) == Len(Join(SubSeq(runs, 1, k - 1)))

FindRunsForRangeFromTop(runs, start_text, end_text) ==
    IF runs = <<>> THEN <<>>
    ELSE
    LET full_text == ParagraphText(runs)
        start_idx == Find(full_text, start_text)
    IN  IF start_idx = -1 THEN <<>>
        ELSE
        LET end_idx_abs == Find(full_text, end_text)
            end_idx == end_idx_abs + Len(end_text)
        IN  IF end_idx_abs = -1 THEN <<>>
            ELSE SelectSeq(AllRuns(runs),
                    LAMBDA k : /\ RunStart(runs, k) + Len(runs[k]) > start_idx
                               /\ RunStart(runs, k) < end_idx)

\* find_runs_for_range(paragraph, start_text, end_text)
FindRunsForRange(runs, start_text, end_text) ==
    IF runs = <<>> THEN <<>>
    ELSE
    LET full_text == ParagraphText(runs)
        start_idx == Find(full_text, start_text)
    IN  IF start_idx = -1 THEN <<>>
        ELSE
        LET end_idx_rel ==
                Find(SubSeq(full_text, start_idx + 1, Len(full_text)), end_text)
            end_idx == start_idx + end_idx_rel + Len(end_text)
        IN  IF end_idx_rel = -1 THEN <<>>
            ELSE SelectSeq(AllRuns(runs),
                    LAMBDA k : /\ RunStart(runs, k) + Len(runs[k]) > start_idx
                               /\ RunStart(runs, k) < end_idx)

\* str.find(x) raises TypeError when x is not a str: find_runs_for_range
\* raises at the search for start_text, or, once start_text is found, at the
\* search for end_text
ResolveRaises(runs, target) ==
    /\ target.kind = "rawrange"
    /\ \/ ~IsStr(target.start)
       \/ /\ Find(ParagraphText(runs), target.start.s) # -1
          /\ ~IsStr(target.end)

TargetRunsLastMatch(runs, target) ==
    CASE target.kind = "range" ->
            IF FindRunsForRange(runs, target.start, target.end) # <<>>
            THEN FindRunsForRange(runs, target.start, target.end)
            ELSE AllRuns(runs)
      [] target.kind = "quoted" ->
            LET holds == {k \in 1..Len(runs) : Contains(runs[k], target.text)}
            IN  IF holds # {}
                THEN <<CHOOSE k \in holds : \A m \in holds : k >= m>>
                ELSE AllRuns(runs)
      [] OTHER -> AllRuns(runs)

TargetRunsNoFallback(runs, target) ==
    CASE target.kind = "range" ->
            FindRunsForRange(runs, target.start, target.end)
      [] target.kind = "quoted" ->
            LET holds == {k \in 1..Len(runs) : Contains(runs[k], target.text)}
            IN  IF holds # {}
                THEN <<CHOOSE k \in holds : \A m \in holds : k <= m>>
                ELSE <<>>
      [] OTHER -> AllRuns(runs)

\* target_runs of one annotation: the range, the first run holding the quoted
\* text, or every run
TargetRuns(runs, target) ==
    CASE target.kind = "range" ->
            IF FindRunsForRange(runs, target.start, target.end) # <<>>
            THEN FindRunsForRange(runs, target.start, target.end)
            ELSE AllRuns(runs)
      [] target.kind = "rawrange" ->
            \* start_text is a str the paragraph lacks: find_runs_for_range
            \* returns [] before it looks at end_text
            AllRuns(runs)
      [] target.kind = "quoted" ->
            LET holds == {k \in 1..Len(runs) : Contains(runs[k], target.text)}
            IN  IF holds # {}
                THEN <<CHOOSE k \in holds : \A m \in holds : k <= m>>
                ELSE AllRuns(runs)
      [] OTHER -> AllRuns(runs)

AddCommentBare(added, para_index, target_runs, item, author) ==
    IF target_runs = <<>> THEN added
    ELSE Append(added, [para_index |-> para_index, runs |-> target_runs,
                        text |-> <<>>, author |-> author, initials |-> "AI"])

\* doc.add_comment(runs=target_runs, text=comment_text, author=author,
\* initials="AI") inside try/except: without runs it raises and is skipped
AddComment(added, para_index, target_runs, item, author) ==
    IF target_runs = <<>> THEN added
    ELSE Append(added, [para_index |-> para_index, runs |-> target_runs,
                        text |-> item.text, author |-> author, initials |-> "AI"])

RECURSIVE InjectComments(_, _, _, _, _, _)
InjectComments(added, para_index, runs, items, i, author) ==
    IF i > Len(items) THEN added
    ELSE InjectComments(
            AddComment(added, para_index,
                       TargetRuns(runs, items[i].target), items[i], author),
            para_index, runs, items, i + 1, author)

\* doc.paragraphs[para_index]: the 0-based position a list index names (a
\* negative index counts from the end)
ParaPos(doc, para_index) ==
    IF para_index >= 0 THEN para_index ELSE Len(doc) + para_index

\* the loop over comments_map.items()
RECURSIVE InjectEntries(_, _, _, _, _)
InjectEntries(doc, map, i, added, author) ==
    IF i > Len(map) THEN added
    ELSE IF map[i].para_index >= Len(doc) THEN
            InjectEntries(doc, map, i + 1, added, author)
    ELSE IF doc[ParaPos(doc, map[i].para_index) + 1] = <<>> THEN
            InjectEntries(doc, map, i + 1, added, author)
    ELSE InjectEntries(doc, map, i + 1,
            InjectComments(added, ParaPos(doc, map[i].para_index),
                           doc[ParaPos(doc, map[i].para_index) + 1],
                           map[i].comments, 1, author),
            author)

\* an exception leaves inject_comments_to_docx: doc.paragraphs[para_index]
\* raises IndexError below -len, and the target resolution of an annotation
\* of a paragraph with runs raises (no try around it)
InjectRaises(doc, map) ==
    \E i \in 1..Len(map) :
        \/ map[i].para_index < 0 - Len(doc)
        \/ /\ map[i].para_index < Len(doc)
           /\ doc[ParaPos(doc, map[i].para_index) + 1] # <<>>
           /\ \E k \in 1..Len(map[i].comments) :
                ResolveRaises(doc[ParaPos(doc, map[i].para_index) + 1],
                              map[i].comments[k].target)

\* inject_comments_to_docx(source_path, output_path, comments_map, author):
\* the package doc.save(output_path) writes
InjectCommentsToDocx(doc, map, author) ==
    [paragraphs |-> doc, comments |-> InjectEntries(doc, map, 1, <<>>, author)]

DefaultAuthor == "AI Reviewer"

-----------------------------------------------------------------------------
(* The reviews and documents the write path is run on *)

Space == <<" ">>
Marker(digits) == <<"[", "D", "L", " ">> \o digits \o <<"]">>

\* a marker, markers the pattern rejects, no marker
Markers ==
    {Marker(<<"0">>), Marker(<<"1", "2">>), Marker(<<" ", "0", "7">>),
     <<"[", "D", "L", "0", "]">>, <<"[", "D", "L", " ", "a", "]">>,
     <<"[", "D", "L", " ", "0">>, <<"[", "D", " ", "0", "]">>, <<>>}

PrefixChars == {" ", "-", "*", "_", "a"}
FixedPrefixes == {<<>>, <<"-", " ">>, <<"1", ".", " ">>, <<"-", " ", "*", "*">>}

TrailChars == {"\"", "a", " "}
TrailHeads == {<<>>, <<" ">>, <<" ", "*", "*">>, <<"_", "_", " ">>, <<"*">>}
FixedTrails == {<<>>, <<" ">>, <<" ", "a">>, <<"a">>}

\* one-line reviews: every prefix with a few trailing texts, and a few
\* prefixes with every trailing text
PrefixLines(n) ==
    {pre \o m \o t : pre \in SeqsUpTo(PrefixChars, n), m \in Markers,
                     t \in FixedTrails}

TrailLines(n) ==
    {pre \o m \o h \o t : pre \in FixedPrefixes,
                          m \in {Marker(<<"0">>), Marker(<<"1", "2">>)},
                          h \in TrailHeads, t \in SeqsUpTo(TrailChars, n)}

\* reviews of several lines
ShortLines ==
    {Marker(<<"0">>) \o <<" ", "a">>,
     Marker(<<"0">>) \o <<" ", "\"", "a", "\"", " ", "b">>,
     Marker(<<"1">>) \o <<" ", "b">>,
     Marker(<<"2">>) \o <<" ", "a">>,
     <<"a">>}

RECURSIVE JoinLines(_)
JoinLines(lines) ==
    IF Len(lines) = 1 THEN lines[1]
    ELSE lines[1] \o <<"\n">> \o JoinLines(Tail(lines))

Reviews(n) == {JoinLines(ls) : ls \in SeqsUpTo(ShortLines, n) \ {<<>>}}

\* documents: a paragraph of two runs; one run; a paragraph without runs
TwoRuns == <<<<<<"a">>, <<"b", "a">>>>>>
ShortDocs ==
    {TwoRuns,
     <<<<<<"a", "b">>>>>>,
     <<<<<<"a">>, <<"a", "b">>>>, <<>>>>,
     <<<<<<"b">>>>, <<<<"a">>, <<"b">>>>>>}

\* the end-to-end example: "The fee is 100 USD." annotated with
\* [paragraph 0] "fee" please clarify currency
FeeDoc ==
    <<<<<<"T", "h", "e", " ">>, <<"f", "e", "e", " ", "i", "s", " ", "1", "0", "0">>,
        <<" ", "U", "S", "D">>, <<".">>>>>>

FeeTrailing ==
    <<"\"", "f", "e", "e", "\"", " ", "p", "l", "e", "a", "s", "e", " ",
      "c", "l", "a", "r", "i", "f", "y", " ", "c", "u", "r", "r", "e", "n", "c",
      "y">>

FeeReview == Marker(<<"0">>) \o Space \o FeeTrailing

-----------------------------------------------------------------------------
(* The write path *)

ReadIdle ==
    /\ package = Package(<<>>, None)
    /\ comments = <<>>
    /\ paragraphs = <<>>
    /\ walked = <<>>
    /\ pc = "idle"
    /\ zip = "none"

StartWrite(text, doc) ==
    /\ ReadIdle
    /\ review_text = text
    /\ source = doc
    /\ comments_map = <<>>
    /\ output = None
    /\ wpc = "parse"
    /\ create = [pc |-> "idle"]

InitWrite ==
    \/ \E line \in PrefixLines(MaxPrefix) : StartWrite(line, TwoRuns)
    \/ \E line \in TrailLines(MaxTrail) : StartWrite(line, TwoRuns)
    \/ \E text \in Reviews(MaxLines) : \E doc \in ShortDocs : StartWrite(text, doc)
    \/ StartWrite(FeeReview, FeeDoc)

\* comments_map = parse_review_for_comments(review_text)
Parse ==
    /\ wpc = "parse"
    /\ comments_map' = ParseReviewForComments(review_text)
    /\ wpc' = "inject"
    /\ UNCHANGED <<review_text, source, output, readVars, create>>

\* inject_comments_to_docx(source_path, output_path, comments_map, author)
Inject ==
    /\ wpc = "inject"
    /\ IF InjectRaises(source, comments_map)
       THEN output' = None /\ wpc' = "raised"
       ELSE /\ output' = Some(InjectCommentsToDocx(source, comments_map,
                                                   DefaultAuthor))
            /\ wpc' = "saved"
    /\ UNCHANGED <<review_text, source, comments_map, readVars, create>>

NextWrite == Parse \/ Inject

SpecWrite == InitWrite /\ [][NextWrite]_vars


-----------------------------------------------------------------------------
(* inject_comments_to_docx called with a comments_map of the caller's own   *)
(* (as create_commented_docx and the tests call it)                         *)

RunTexts == {<<>>, <<"a">>, <<"b">>, <<"a", "b">>}
TargetTexts == {<<>>, <<"a">>, <<"b">>, <<"a", "b">>, <<"b", "a">>, <<"c">>}

\* tuples whose members are not both str
RawTargets ==
    {RawRangeTarget(JInt(5), JInt(7)), RawRangeTarget(JStr(<<"a">>), JInt(7)),
     RawRangeTarget(JInt(5), JStr(<<"a">>)), RawRangeTarget(JStr(<<"c">>), JInt(7))}

Targets ==
    {WholeTarget} \cup {QuotedTarget(q) : q \in TargetTexts}
        \cup {RangeTarget(x, y) : x \in TargetTexts, y \in TargetTexts}
        \cup RawTargets

Annotation(target, text) == [target |-> target, text |-> text]
Entry(para_index, items) == [para_index |-> para_index, comments |-> items]

\* one paragraph, one annotation: every paragraph with every target
ResolutionCalls(n) ==
    {[doc |-> <<runs>>, map |-> <<Entry(0, <<Annotation(t, <<"x">>)>>)>>] :
        runs \in SeqsUpTo(RunTexts, n), t \in Targets}

\* documents of no, one and two paragraphs; one paragraph without runs
IndexDocs ==
    {<<>>, <<<<<<"a">>>>>>, <<<<<<"a">>>>, <<<<"b">>, <<"a">>>>>>,
     <<<<>>, <<<<"a">>>>>>}
ParaIndices == {-3, -1, 0, 2}
Items ==
    {Annotation(WholeTarget, <<"x">>), Annotation(QuotedTarget(<<"a">>), <<"y">>),
     Annotation(RawRangeTarget(JInt(5), JInt(7)), <<"z">>)}

\* one paragraph index, several annotations
ItemCalls(n) ==
    {[doc |-> d, map |-> <<Entry(i, items)>>] :
        d \in IndexDocs, i \in ParaIndices, items \in SeqsUpTo(Items, n) \ {<<>>}}

\* sequences of up to n entries of distinct paragraph indices, one annotation each
RECURSIVE Maps(_)
Maps(n) ==
    IF n = 0 THEN {<<>>}
    ELSE LET shorter == Maps(n - 1)
         IN  shorter \cup
             {Append(m, Entry(i, <<it>>)) :
                m \in {x \in shorter : Len(x) = n - 1},
                i \in ParaIndices, it \in Items}

DistinctKeys(map) ==
    \A j \in 1..Len(map), k \in 1..Len(map) :
        j # k => map[j].para_index # map[k].para_index

EntryCalls(n) ==
    {[doc |-> d, map |-> m] :
        d \in IndexDocs, m \in {x \in Maps(n) : DistinctKeys(x)}}

\* inject_comments_to_docx(source_path, output_path, comments_map) is entered
StartInject(call) ==
    /\ ReadIdle
    /\ review_text = <<>>
    /\ source = call.doc
    /\ comments_map = call.map
    /\ output = None
    /\ wpc = "inject"
    /\ create = [pc |-> "idle"]

InitInject ==
    \/ \E call \in ResolutionCalls(MaxRuns) : StartInject(call)
    \/ \E call \in ItemCalls(MaxItems) : StartInject(call)
    \/ \E call \in EntryCalls(MaxEntries) : StartInject(call)

NextInject == Inject

SpecInject == InitInject /\ [][NextInject]_vars

-----------------------------------------------------------------------------
(* llm_review.py: CommentLocator.locate_comments.  The reply is what the    *)
(* model call yields: ok = FALSE when generate_content or json.loads        *)
(* raises; otherwise the decoded JSON, a list of items or something else.   *)

Reply(ok, list, items) == [ok |-> ok, list |-> list, items |-> items]
\* an item of the decoded list: a dict with these keys, or not a dict
Item(comment_index, start, end) ==
    [dict |-> TRUE, comment_index |-> comment_index, start |-> start, end |-> end]
NotADict == [dict |-> FALSE, comment_index |-> JNull, start |-> JNull, end |-> JNull]

\* [{"start": "", "end": ""} for _ in comments]
EmptyLocations(n) == [k \in 1..n |-> [start |-> JStr(<<>>), end |-> JStr(<<>>)]]

\* item.get(key, "")
GetOrEmpty(v) == IF v = JMissing THEN JStr(<<>>) ELSE v

\* the loop over result: locations[idx] = {...} for an int idx in range
RECURSIVE FillLocations(_, _, _, _)
FillLocations(items, i, n, locations) ==
    IF i > Len(items) THEN locations
    ELSE LET idx == items[i].comment_index
         IN  FillLocations(items, i + 1, n,
                IF idx.t = "int" /\ 0 <= idx.n /\ idx.n < n
                THEN [locations EXCEPT ![idx.n + 1] =
                        [start |-> GetOrEmpty(items[i].start),
                         end   |-> GetOrEmpty(items[i].end)]]
                ELSE locations)

\* locate_comments(paragraph_text, comments) with n = len(comments): any
\* exception in the try (a failed call, invalid JSON, a result that cannot be
\* iterated, an item without .get) gives the empty locations
LocateComments(reply, n) ==
    IF n = 0 THEN <<>>
    ELSE IF ~reply.ok \/ ~reply.list THEN EmptyLocations(n)
    ELSE IF \E k \in 1..Len(reply.items) : ~reply.items[k].dict
         THEN EmptyLocations(n)
    ELSE FillLocations(reply.items, 1, n, EmptyLocations(n))

-----------------------------------------------------------------------------
(* writer.py: create_commented_docx *)

\* if start and end: ((start, end), text) else (None, text)
RefinedTarget(loc) ==
    IF JTruthy(loc.start) /\ JTruthy(loc.end)
    THEN IF IsStr(loc.start) /\ IsStr(loc.end)
         THEN RangeTarget(loc.start.s, loc.end.s)
         ELSE RawRangeTarget(loc.start, loc.end)
    ELSE WholeTarget

\* the second loop over comments: located annotations take their location
RECURSIVE RefineItems(_, _, _, _)
RefineItems(items, i, locations, loc_idx) ==
    IF i > Len(items) THEN <<>>
    ELSE IF items[i].target.kind = "whole"
    THEN <<[target |-> RefinedTarget(locations[loc_idx + 1]),
            text |-> items[i].text]>>
         \o RefineItems(items, i + 1, locations, loc_idx + 1)
    ELSE <<items[i]>> \o RefineItems(items, i + 1, locations, loc_idx)

\* one iteration of the loop over comments_map.items()
RefineEntry(doc, entry, reply) ==
    IF entry.para_index >= Len(doc) THEN entry
    ELSE LET to_locate == SelectSeq(entry.comments,
                                    LAMBDA it : it.target.kind = "whole")
             locations == LocateComments(reply, Len(to_locate))
         IN  [entry EXCEPT !.comments = RefineItems(@, 1, locations, 0)]

\* refined_map
Refine(doc, map, reply) ==
    [k \in 1..Len(map) |-> RefineEntry(doc, map[k], reply)]

\* the values a reply gives for start and end
SpanValues ==
    {JStr(<<>>), JStr(<<"a">>), JStr(<<"b">>), JStr(<<"A">>), JStr(<<"c">>),
     JInt(5), JInt(0), JNull, JMissing}
IndexValues == {JInt(0), JInt(1), JInt(5), JStr(<<"0">>)}

\* replies: a failed call, a JSON value that is no list, lists of one item
\* of every shape, lists of a few items
OneItemReplies ==
    {Reply(FALSE, FALSE, <<>>), Reply(TRUE, FALSE, <<>>), Reply(TRUE, TRUE, <<>>),
     Reply(TRUE, TRUE, <<NotADict>>)}
    \cup {Reply(TRUE, TRUE, <<Item(i, x, y)>>) :
            i \in IndexValues, x \in SpanValues, y \in SpanValues}

FewItems ==
    {Item(JInt(0), JStr(<<"a">>), JStr(<<"b">>)),
     Item(JInt(1), JStr(<<"b">>), JStr(<<"a">>)),
     Item(JInt(0), JInt(5), JInt(7)),
     NotADict}

ManyItemReplies(n) == {Reply(TRUE, TRUE, its) : its \in SeqsUpTo(FewItems, n)}

FewReplies ==
    {Reply(FALSE, FALSE, <<>>),
     Reply(TRUE, TRUE, <<Item(JInt(0), JStr(<<"b">>), JStr(<<"a">>))>>),
     Reply(TRUE, TRUE, <<Item(JInt(0), JInt(5), JInt(7))>>)}

\* reviews of one and two unquoted annotations, with and without a quoted one
FewReviews ==
    {Marker(<<"0">>) \o <<" ", "a">>,
     JoinLines(<<Marker(<<"0">>) \o <<" ", "a">>, Marker(<<"0">>) \o <<" ", "b">>>>),
     JoinLines(<<Marker(<<"0">>) \o <<" ", "\"", "a", "\"", " ", "b">>,
                 Marker(<<"0">>) \o <<" ", "a">>>>)}

\* create_commented_docx(source_path, review_text) is entered; api_key: the
\* environment has GOOGLE_API_KEY
StartCreate(text, doc, api_key, reply) ==
    /\ ReadIdle
    /\ review_text = text
    /\ source = doc
    /\ comments_map = <<>>
    /\ output = None
    /\ wpc = "idle"
    /\ create = [pc |-> "parse", api_key |-> api_key, reply |-> reply,
                 refined_map |-> <<>>, temp |-> "none", result |-> None]

InitCreate ==
    \/ \E text \in FewReviews : \E key \in BOOLEAN :
         \E reply \in OneItemReplies : StartCreate(text, TwoRuns, key, reply)
    \/ \E text \in FewReviews : \E key \in BOOLEAN :
         \E reply \in ManyItemReplies(MaxReply) : StartCreate(text, TwoRuns, key, reply)
    \/ \E text \in Reviews(MaxLines) : \E doc \in ShortDocs : \E key \in BOOLEAN :
         \E reply \in FewReplies : StartCreate(text, doc, key, reply)

\* 1. comments_map = parse_review_for_comments(review_text)
CreateParse ==
    /\ create.pc = "parse"
    /\ comments_map' = ParseReviewForComments(review_text)
    /\ create' = [create EXCEPT !.pc = "setup"]
    /\ UNCHANGED <<review_text, source, output, wpc, readVars>>

\* doc = Document(source_path); locator = CommentLocator(), which raises
\* RuntimeError without GOOGLE_API_KEY
CreateSetup ==
    /\ create.pc = "setup"
    /\ create' = [create EXCEPT !.pc = IF create.api_key THEN "refine" ELSE "raised"]
    /\ UNCHANGED <<writeVars, readVars>>

\* 2. the loop that builds refined_map
CreateRefine ==
    /\ create.pc = "refine"
    /\ create' = [create EXCEPT
                    !.refined_map = Refine(source, comments_map, create.reply),
                    !.pc = "temp"]
    /\ UNCHANGED <<writeVars, readVars>>

\* tempfile.NamedTemporaryFile(suffix=".docx", delete=False, ...); close():
\* an empty file exists at temp_path
CreateTemp ==
    /\ create.pc = "temp"
    /\ create' = [create EXCEPT !.temp = "empty", !.pc = "inject"]
    /\ UNCHANGED <<writeVars, readVars>>

CreateInjectPublishing ==
    /\ create.pc = "inject"
    /\ IF InjectRaises(source, create.refined_map)
       THEN /\ create' = [create EXCEPT !.pc = "returned",
                                        !.result = Some("temp_path")]
            /\ output' = None
       ELSE /\ output' = Some(InjectCommentsToDocx(source, create.refined_map,
                                                   DefaultAuthor))
            /\ create' = [create EXCEPT !.pc = "returned", !.temp = "written",
                                        !.result = Some("temp_path")]
    /\ UNCHANGED <<review_text, source, comments_map, wpc, readVars>>

\* 3. inject_comments_to_docx(source_path, temp_path, refined_map, author);
\* return temp_path
CreateInject ==
    /\ create.pc = "inject"
    /\ IF InjectRaises(source, create.refined_map)
       THEN /\ create' = [create EXCEPT !.pc = "raised"]
            /\ output' = None
       ELSE /\ output' = Some(InjectCommentsToDocx(source, create.refined_map,
                                                   DefaultAuthor))
            /\ create' = [create EXCEPT !.pc = "returned", !.temp = "written",
                                        !.result = Some("temp_path")]
    /\ UNCHANGED <<review_text, source, comments_map, wpc, readVars>>

NextCreate ==
    CreateParse \/ CreateSetup \/ CreateRefine \/ CreateTemp \/ CreateInject

SpecCreate == InitCreate /\ [][NextCreate]_vars

-----------------------------------------------------------------------------
(* Vocabulary of the write path's properties: the annotation grammar, read  *)
(* off a line and not off the matcher                                        *)

ListChars == {"-", "*", "."} \cup Digits
EmphasisChars == {"*", "_"}

Blank(s) == \A k \in 1..Len(s) : s[k] = " "

\* an optional two-character emphasis marker with blanks around it
IsEmphasisDecoration(s) ==
    \E a \in 0..Len(s) : \E b \in {a, a + 2} :
        /\ b <= Len(s)
        /\ Blank(SubSeq(s, 1, a))
        /\ \A k \in (a + 1)..b : s[k] \in EmphasisChars
        /\ Blank(SubSeq(s, b + 1, Len(s)))

\* list decoration (bullets, numbering), then emphasis decoration
IsLeadingDecoration(s) ==
    \E a \in 0..Len(s) : \E b \in a..Len(s) :
        /\ Blank(SubSeq(s, 1, a))
        /\ \A k \in (a + 1)..b : s[k] \in ListChars
        /\ IsEmphasisDecoration(SubSeq(s, b + 1, Len(s)))

\* s[p..q] is the bracketed paragraph marker with an integer index, s[i..q-1]
\* the index
IsMarker(s, p, i, q) ==
    /\ 1 <= p /\ p + 3 < i /\ i < q /\ q <= Len(s)
    /\ SubSeq(s, p, p + 2) = <<"[", "D", "L">>
    /\ Blank(SubSeq(s, p + 3, i - 1))
    /\ \A k \in i..(q - 1) : s[k] \in Digits
    /\ s[q] = "]"

\* where s begins, after its leading decoration, with the marker: <<p, i, q>>
MarkerCuts(s) ==
    {c \in {k \in 1..Len(s) : s[k] = "["} \X (1..Len(s))
           \X {k \in 1..Len(s) : s[k] = "]"} :
        IsMarker(s, c[1], c[2], c[3]) /\ IsLeadingDecoration(SubSeq(s, 1, c[1] - 1))}

\* what the grammar reads in a line: None, or the paragraph index of its
\* marker and the text that follows the marker, without the blanks around it
LineAnnotation(line) ==
    LET s == Strip(line)
        cuts == MarkerCuts(s)
    IN  IF cuts = {} THEN None
        ELSE LET c == CHOOSE x \in cuts : TRUE
             IN  Some([index |-> ParseInt(SubSeq(s, c[2], c[3] - 1)),
                       body  |-> Strip(SubSeq(s, c[3] + 1, Len(s)))])

\* body begins, after emphasis decoration, with "q": the cuts (i, j) of the quotes
QuoteCuts(body) ==
    {c \in {k \in 1..Len(body) : body[k] = "\""}
           \X {k \in 1..Len(body) : body[k] = "\""} :
        /\ c[1] + 1 < c[2]
        /\ \A k \in (c[1] + 1)..(c[2] - 1) : body[k] # "\""
        /\ IsEmphasisDecoration(SubSeq(body, 1, c[1] - 1))}

ExpectedTarget(body) ==
    IF QuoteCuts(body) = {} THEN WholeTarget
    ELSE LET c == CHOOSE x \in QuoteCuts(body) : TRUE
         IN  QuotedTarget(SubSeq(body, c[1] + 1, c[2] - 1))

Lines == SplitLines(review_text)
Parsed == wpc \in {"inject", "saved"}

\* per line of the review, what the grammar reads in it
Annotations == [k \in 1..Len(Lines) |-> LineAnnotation(Lines[k])]

\* the annotations parsed for paragraph n, in encounter order
ItemsFor(map, n) ==
    IF \E k \in 1..Len(map) : map[k].para_index = n
    THEN (map[CHOOSE k \in 1..Len(map) : map[k].para_index = n]).comments
    ELSE <<>>

Keys(map) == {map[k].para_index : k \in 1..Len(map)}

\* the bodies the grammar reads for paragraph n, in line order (only the
\* non-empty ones when withText)
Bodies(anns, n, withText) ==
    LET hits == SelectSeq(anns, LAMBDA a : /\ a # None
                                          /\ Val(a).index = n
                                          /\ (withText => Val(a).body # <<>>))
    IN  [k \in 1..Len(hits) |-> Val(hits[k]).body]

Indices(anns, withText) ==
    {Val(anns[k]).index : k \in {m \in 1..Len(anns) :
        anns[m] # None /\ (withText => Val(anns[m]).body # <<>>)}}

-----------------------------------------------------------------------------
(* Properties of the write path *)

C8_WitnessWhole ==
    /\ Parsed
    /\ \E n \in Keys(comments_map) :
        \E k \in 1..Len(ItemsFor(comments_map, n)) :
            LET item == ItemsFor(comments_map, n)[k]
            IN  item.target = WholeTarget /\ Contains(item.text, <<"\"">>)

\* C9 as stated: a line yields an annotation exactly when it begins, after its
\* leading decoration, with the marker; the body is the text after the marker,
\* which may be empty
C9_MarkerIffAnnotation ==
    Parsed =>
        LET anns == Annotations
        IN  /\ Keys(comments_map) = Indices(anns, FALSE)
            /\ \A n \in Indices(anns, FALSE) :
                LET items  == ItemsFor(comments_map, n)
                    bodies == Bodies(anns, n, FALSE)
                IN  /\ Len(items) = Len(bodies)
                    /\ \A k \in 1..Len(bodies) :
                        k <= Len(items) => items[k].text = bodies[k]

\* C9 amended: a line yields an annotation exactly when it begins, after its
\* leading decoration, with the marker and text follows the marker; the body
\* is that text
C9_MarkerWithTextIffAnnotation ==
    Parsed =>
        LET anns == Annotations
        IN  /\ Keys(comments_map) = Indices(anns, TRUE)
            /\ \A n \in Indices(anns, TRUE) :
                LET items  == ItemsFor(comments_map, n)
                    bodies == Bodies(anns, n, TRUE)
                IN  /\ Len(items) = Len(bodies)
                    /\ \A k \in 1..Len(bodies) : items[k].text = bodies[k]

\* a decorated line was parsed into an annotation
C9_Witness ==
    /\ Parsed
    /\ Len(Lines) = 1
    /\ LineAnnotation(Lines[1]) # None
    /\ Strip(Lines[1])[1] \in ListChars
    /\ comments_map # <<>>

\* a line with a marker and nothing after it was parsed into no annotation
C9_WitnessNoText ==
    /\ Parsed
    /\ Len(Lines) = 1
    /\ LineAnnotation(Lines[1]) # None
    /\ Val(LineAnnotation(Lines[1])).body = <<>>
    /\ comments_map = <<>>

\* the one-line review of a one-paragraph document whose annotation quotes a
\* text that a run of paragraph 0 holds
QuotedEndToEnd(ann) ==
    /\ Len(source) = 1
    /\ Len(Lines) = 1
    /\ ann # None
    /\ Val(ann).index = 0
    /\ Val(ann).body # <<>>
    /\ ExpectedTarget(Val(ann).body).kind = "quoted"
    /\ \E r \in 1..Len(source[1]) :
         Contains(source[1][r], ExpectedTarget(Val(ann).body).text)

FirstRunHolding(runs, q) ==
    CHOOSE r \in 1..Len(runs) :
        /\ Contains(runs[r], q)
        /\ \A m \in 1..(r - 1) : ~Contains(runs[m], q)

\* what follows the quoted target in the trailing text, without blanks around
AfterQuote(body) ==
    LET c == CHOOSE x \in QuoteCuts(body) : TRUE
    IN  Strip(SubSeq(body, c[2] + 1, Len(body)))

-----------------------------------------------------------------------------
(* Properties of the injector *)

\* the annotations the injector reaches, in the order it reaches them: those
\* of the entries whose index selects a paragraph that has runs
RECURSIVE Reached(_, _, _)
Reached(doc, map, i) ==
    IF i > Len(map) THEN <<>>
    ELSE LET idx == map[i].para_index
             pos == IF idx >= 0 THEN idx ELSE Len(doc) + idx
             items == map[i].comments
             here == IF idx < Len(doc) /\ pos >= 0 /\ doc[pos + 1] # <<>>
                     THEN [k \in 1..Len(items) |->
                             [pos |-> pos, target |-> items[k].target,
                              text |-> items[k].text]]
                     ELSE <<>>
         IN  here \o Reached(doc, map, i + 1)

Added == Val(output).comments

EveryRun(runs) == [k \in 1..Len(runs) |-> k]

Holders(runs, q) == {r \in 1..Len(runs) : Contains(runs[r], q)}

\* C11: a literal-substring target resolves to the single first run whose own
\* text holds the substring, and to every run when no single run holds it
C11_QuotedFirstRunOrAll ==
    wpc = "saved" =>
        LET reached == Reached(source, comments_map, 1)
        IN  /\ Len(Added) = Len(reached)
            /\ \A k \in 1..Len(reached) :
                reached[k].target.kind = "quoted" =>
                    LET runs == source[reached[k].pos + 1]
                        q == reached[k].target.text
                    IN  /\ k <= Len(Added)
                        /\ Added[k].runs =
                             IF Holders(runs, q) # {}
                             THEN <<FirstRunHolding(runs, q)>>
                             ELSE EveryRun(runs)

\* a substring that two runs hold resolved to the first of them
C11_Witness ==
    /\ wpc = "saved"
    /\ Len(comments_map) = 1
    /\ comments_map[1].para_index = 0
    /\ Len(comments_map[1].comments) = 1
    /\ comments_map[1].comments[1].target.kind = "quoted"
    /\ comments_map[1].comments[1].target.text # <<>>
    /\ Cardinality(Holders(source[1], comments_map[1].comments[1].target.text)) >= 2
    /\ ~(1 \in Holders(source[1], comments_map[1].comments[1].target.text))
    /\ Len(Added) = 1
    /\ Len(Added[1].runs) = 1

\* a phrase that spans a run boundary resolved to every run
C11_WitnessSpanning ==
    /\ wpc = "saved"
    /\ Len(comments_map) = 1
    /\ comments_map[1].para_index = 0
    /\ Len(comments_map[1].comments) = 1
    /\ comments_map[1].comments[1].target.kind = "quoted"
    /\ Holders(source[1], comments_map[1].comments[1].target.text) = {}
    /\ Contains(Join(source[1]), comments_map[1].comments[1].target.text)
    /\ Len(Added) = 1
    /\ Len(Added[1].runs) >= 2

\* the 0-based offsets at which t occurs in text
Occurrences(text, t) ==
    {i \in 0..(Len(text) - Len(t)) : SubSeq(text, i + 1, i + Len(t)) = t}

Least(S) == CHOOSE x \in S : \A y \in S : x <= y

RECURSIVE LenSum(_, _)
LenSum(runs, n) == IF n = 0 THEN 0 ELSE LenSum(runs, n - 1) + Len(runs[n])

\* the runs whose cumulative span [a, b) has a < e and b > s
Overlapping(runs, s, e) ==
    {r \in 1..Len(runs) : LenSum(runs, r - 1) < e /\ LenSum(runs, r) > s}

Ascending(runs, S) == SelectSeq(EveryRun(runs), LAMBDA r : r \in S)

Contiguous(seq) == \A k \in 1..(Len(seq) - 1) : seq[k + 1] = seq[k] + 1

\* the run set a (start, end) pair names in runs; fallbackWhenNone: every
\* run also when start and end are found and no run overlaps the range
RangeRuns(runs, st, en, fallbackWhenNone) ==
    LET text == Join(runs)
        starts == Occurrences(text, st)
    IN  IF starts = {} THEN EveryRun(runs)
        ELSE LET sidx == Least(starts)
                 ends == {i \in Occurrences(text, en) : i >= sidx}
             IN  IF ends = {} THEN EveryRun(runs)
                 ELSE LET eidx == Least(ends) + Len(en)
                          over == Overlapping(runs, sidx, eidx)
                      IN  IF over = {} /\ fallbackWhenNone THEN EveryRun(runs)
                          ELSE Ascending(runs, over)

\* C12 as stated: a (start, end) pair resolves to exactly the runs overlapping
\* [s, e), a contiguous subsequence; to every run if start or end is absent
C12_RangeOverlapOrAbsent ==
    wpc = "saved" =>
        LET reached == Reached(source, comments_map, 1)
        IN  \A k \in 1..Len(reached) :
                reached[k].target.kind = "range" =>
                    LET runs == source[reached[k].pos + 1]
                    IN  /\ k <= Len(Added)
                        /\ Added[k].runs = RangeRuns(runs, reached[k].target.start,
                                                    reached[k].target.end, FALSE)
                        /\ Contiguous(Added[k].runs)

\* C12 amended: as stated, and every run also when start and end are found
\* and no run overlaps the range, which happens only for an empty end
C12_RangeOverlapOrFallback ==
    wpc = "saved" =>
        LET reached == Reached(source, comments_map, 1)
        IN  /\ Len(Added) = Len(reached)
            /\ \A k \in 1..Len(reached) :
                reached[k].target.kind = "range" =>
                    LET runs == source[reached[k].pos + 1]
                        st == reached[k].target.start
                        en == reached[k].target.end
                    IN  /\ k <= Len(Added)
                        /\ Added[k].runs = RangeRuns(runs, st, en, TRUE)
                        /\ Contiguous(Added[k].runs)
                        /\ (RangeRuns(runs, st, en, FALSE) = <<>>) => en = <<>>

\* a pair resolved to two of three runs, the end searched from the start's
\* position on (it also occurs before it)
C12_Witness ==
    /\ wpc = "saved"
    /\ Len(comments_map) = 1
    /\ Len(comments_map[1].comments) = 1
    /\ comments_map[1].para_index = 0
    /\ comments_map[1].comments[1].target.kind = "range"
    /\ Len(source[1]) = 3
    /\ LET st == comments_map[1].comments[1].target.start
           en == comments_map[1].comments[1].target.end
           text == Join(source[1])
       IN  /\ st # <<>> /\ en # <<>>
           /\ Occurrences(text, st) # {}
           /\ Occurrences(text, en) # {}
           /\ Least(Occurrences(text, en)) < Least(Occurrences(text, st))
    /\ Len(Added) = 1
    /\ Len(Added[1].runs) = 2

\* a pair with an empty end resolved to every run
C12_WitnessEmptyEnd ==
    /\ wpc = "saved"
    /\ Len(comments_map) = 1
    /\ Len(comments_map[1].comments) = 1
    /\ comments_map[1].para_index = 0
    /\ comments_map[1].comments[1].target.kind = "range"
    /\ comments_map[1].comments[1].target.end = <<>>
    /\ comments_map[1].comments[1].target.start # <<>>
    /\ Contains(Join(source[1]), comments_map[1].comments[1].target.start)
    /\ Len(source[1]) >= 2
    /\ Len(Added) = 1
    /\ Added[1].runs = EveryRun(source[1])

WellTyped(target) == target.kind \in {"whole", "quoted", "range"}

\* the target cannot be located in the paragraph
Unlocatable(runs, target) ==
    CASE target.kind = "whole"  -> TRUE
      [] target.kind = "quoted" -> ~Contains(Join(runs), target.text)
      [] target.kind = "range"  ->
            \/ ~Contains(Join(runs), target.start)
            \/ ~Contains(Join(runs), target.end)

\* C13: for a paragraph with runs, every target (None, a substring, a pair;
\* absent or empty ones too) resolves to a non-empty run set, and None and
\* every target that cannot be located resolve to every run
C13_ResolutionNeverEmpty ==
    wpc = "saved" =>
        LET reached == Reached(source, comments_map, 1)
        IN  /\ Len(Added) = Len(reached)
            /\ \A k \in 1..Len(reached) :
                WellTyped(reached[k].target) =>
                    LET runs == source[reached[k].pos + 1]
                    IN  /\ k <= Len(Added)
                        /\ Added[k].runs # <<>>
                        /\ \A m \in 1..Len(Added[k].runs) :
                             Added[k].runs[m] \in 1..Len(runs)
                        /\ Unlocatable(runs, reached[k].target)
                             => Added[k].runs = EveryRun(runs)

\* a substring the paragraph lacks resolved to every run of several
C13_Witness ==
    /\ wpc = "saved"
    /\ Len(comments_map) = 1
    /\ Len(comments_map[1].comments) = 1
    /\ comments_map[1].para_index = 0
    /\ comments_map[1].comments[1].target.kind \in {"quoted", "range"}
    /\ Unlocatable(source[1], comments_map[1].comments[1].target)
    /\ Len(source[1]) >= 2
    /\ Len(Added) = 1
    /\ Added[1].runs = EveryRun(source[1])

InRange(doc, idx) == 0 <= idx /\ idx < Len(doc)

\* the annotations that address a paragraph of the document that has runs,
\* in the order of the comments_map
RECURSIVE Addressed(_, _, _)
Addressed(doc, map, i) ==
    IF i > Len(map) THEN <<>>
    ELSE LET idx == map[i].para_index
             items == map[i].comments
             here == IF InRange(doc, idx) /\ doc[idx + 1] # <<>>
                     THEN [k \in 1..Len(items) |->
                             [pos |-> idx, target |-> items[k].target,
                              text |-> items[k].text]]
                     ELSE <<>>
         IN  here \o Addressed(doc, map, i + 1)

\* where each comment of the output is, and what it says
Placed(added) == [k \in 1..Len(added) |-> <<added[k].para_index, added[k].text>>]

Wanted(annots) == [k \in 1..Len(annots) |-> <<annots[k].pos, annots[k].text>>]

\* C16: annotations whose paragraph index is outside 0..(paragraph count - 1)
\* inject nothing and raise nothing, the annotations of the other paragraphs
\* are injected, and the paragraphs and their runs are those of the input
C16_OutOfRangeSkipped ==
    LET addressed == Addressed(source, comments_map, 1)
    IN  (/\ wpc \in {"saved", "raised"}
         /\ \A k \in 1..Len(addressed) : WellTyped(addressed[k].target))
        => /\ wpc = "saved"
           /\ Placed(Added) = Wanted(addressed)
           /\ Val(output).paragraphs = source

\* C17: an annotation whose injection fails is skipped alone: the annotations
\* after it, of the same and of later paragraphs, are injected and the output
\* is saved
C17_FailureSkipsOneAnnotation ==
    LET addressed == Addressed(source, comments_map, 1)
        sound == SelectSeq(addressed, LAMBDA a : WellTyped(a.target))
    IN  (/\ wpc \in {"saved", "raised"}
         /\ \A k \in 1..Len(comments_map) : comments_map[k].para_index >= 0)
        => /\ wpc = "saved"
           /\ Placed(Added) = Wanted(sound)
           /\ Val(output).paragraphs = source

-----------------------------------------------------------------------------
(* Properties of create_commented_docx *)

CreateEnded == create.pc \in {"returned", "raised"}

\* the span a reply gives for the j-th (0-based) unquoted annotation of a
\* paragraph: none for a failed call or a reply that is no list of dicts,
\* else that of the last item whose comment_index is j
SpanFor(reply, j) ==
    IF ~reply.ok \/ ~reply.list \/ \E k \in 1..Len(reply.items) : ~reply.items[k].dict
    THEN None
    ELSE LET named == {k \in 1..Len(reply.items) :
                         reply.items[k].comment_index = JInt(j)}
         IN  IF named = {} THEN None
             ELSE LET k == CHOOSE x \in named : \A y \in named : y <= x
                  IN  Some([start |-> reply.items[k].start, end |-> reply.items[k].end])

\* both ends of the span are non-empty strings that occur in text
ExactSubstrings(text, span) ==
    /\ IsStr(span.start) /\ IsStr(span.end)
    /\ span.start.s # <<>> /\ span.end.s # <<>>
    /\ Occurrences(text, span.start.s) # {}
    /\ Occurrences(text, span.end.s) # {}

\* the unquoted annotations before the k-th of reached in the same paragraph
UnquotedBefore(reached, k) ==
    Cardinality({m \in 1..(k - 1) : /\ reached[m].pos = reached[k].pos
                                    /\ reached[m].target.kind = "whole"})

\* C14: with a locator at hand, the span the locator returns for an unquoted
\* annotation becomes its (start, end) target only if both ends are exact
\* substrings of the paragraph's text; for a failed call, a malformed reply,
\* empty strings and non-substrings the annotation is anchored to every run
C14_LocatedSpanOrWholeParagraph ==
    (create.api_key /\ CreateEnded) =>
        /\ create.pc = "returned"
        /\ LET reached == Reached(source, comments_map, 1)
           IN  /\ Len(Added) = Len(reached)
               /\ \A k \in 1..Len(reached) :
                    reached[k].target.kind = "whole" =>
                        LET runs == source[reached[k].pos + 1]
                            span == SpanFor(create.reply, UnquotedBefore(reached, k))
                        IN  Added[k].runs =
                              IF span # None /\ ExactSubstrings(Join(runs), Val(span))
                              THEN RangeRuns(runs, Val(span).start.s,
                                             Val(span).end.s, TRUE)
                              ELSE EveryRun(runs)

\* C15: the locator is optional: when parsing the review and injecting its
\* annotations into the source succeed, the call produces the output whether
\* the locator is unavailable, its call fails, or it answers anything at all
C15_LocatorNeverFatal ==
    (CreateEnded /\ ~InjectRaises(source, ParseReviewForComments(review_text)))
        => /\ create.pc = "returned"
           /\ create.result # None
           /\ Len(Added) = Len(Reached(source, comments_map, 1))

\* C18: the output path is published only after every injection is done and
\* the document is written under it; a call that fails returns no path
C18_PathOnlyAfterSave ==
    /\ create.pc # "idle" /\ create.result # None =>
         /\ create.pc = "returned"
         /\ create.temp = "written"
         /\ output # None
         /\ Placed(Added) = Wanted(Reached(source, create.refined_map, 1))
         /\ Val(output).paragraphs = source
    /\ create.pc = "raised" => create.result = None /\ output = None
    /\ create.pc = "returned" => create.result # None

\* a call that returned the path of a written document holding a comment
C18_Witness ==
    /\ create.pc = "returned"
    /\ create.result = Some("temp_path")
    /\ create.temp = "written"
    /\ Len(Added) >= 2

\* a call that failed in the injection, after the output file was created,
\* and returned no path
C18_WitnessRaised ==
    /\ create.pc = "raised"
    /\ create.temp = "empty"
    /\ create.result = None

\* C19: what a call acquires is released when it ends, also when it fails:
\* the archive handle of the analyzer is closed once the analysis is done,
\* and no output file is left behind by a call that returned no path
C19_ReleasedOnEveryPath ==
    /\ pc = "done" => zip = "closed"
    /\ create.pc = "raised" => create.temp = "none"
    /\ create.pc = "returned" => create.temp = "written"

=============================================================================
